---- MODULE Spec2Model ----
(***************************************************************************)
(* A model of the ecocito bridge (src/main.py): the portal client          *)
(* (Ecocito.login / get_levees / logout), the deduplication state store    *)
(* (State.load_state / save_state / compute_hash / is_new) and the polling *)
(* loop of __main__.  The process can be killed at any step and restarted. *)
(***************************************************************************)
EXTENDS Integers, Sequences, FiniteSets, TLC

(* ------------------------------ bounds -------------------------------- *)

\* Longest "data" array of one portal response.
MaxRows == 2

\* Most <div> blocks in one HTML body.
MaxDivs == 2

\* Cap of the per-fingerprint publication counter (a history variable).
MaxPub == 2

\* Cap of the count of sessions left open at the portal (a history variable):
\* at the cap a further login leaves the count as it is.
MaxSessions == 2

(* ------------------------------ helpers ------------------------------- *)

Range(s) == {s[i] : i \in 1..Len(s)}

SeqsUpTo(S, n) == UNION {[1..k -> S] : k \in 0..n}

\* Python's None, where a dict lookup finds no key.
None == "None"

(* --------------------------- HTTP responses --------------------------- *)

\* Texts of the <li> items of one block, in document order.
ItemLists ==
    { <<>>,
      <<"Invalid credentials">>,
      <<"Invalid credentials", "Compte bloque">>,
      <<"Compte bloque", "Invalid credentials">> }

DivClasses == {"validation-summary-errors", "error"}

Divs == [class : DivClasses, items : ItemLists]

Statuses == {200, 403, 500}

\* Rows of the "data" array: the keys the loop reads (src/main.py:162-165).
RowA ==
    [NumeroCuve |-> "A1", NumeroPuce |-> "P1",
     QUANTITE_NETTE |-> [float |-> TRUE, tenths |-> 125],
     DATE_DONNEE |-> "2024-03-01T08:00:00"]

RowB ==
    [NumeroCuve |-> "A1", NumeroPuce |-> "P2",
     QUANTITE_NETTE |-> [float |-> FALSE, tenths |-> 70],
     DATE_DONNEE |-> "2024-03-02T09:30:00"]

\* A row without DATE_DONNEE: row.get('DATE_DONNEE') is None.
RowNoDate ==
    [NumeroCuve |-> "A1", NumeroPuce |-> "P1",
     QUANTITE_NETTE |-> [float |-> TRUE, tenths |-> 125],
     DATE_DONNEE |-> None]

Rows == {RowA, RowB, RowNoDate}

RowSeqs == SeqsUpTo(Rows, MaxRows)

\* What json.loads makes of a body: a dict (with or without the "data" key),
\* some other JSON value, or a decode error.
JsonDict(hasData, data) == [type |-> "dict", hasData |-> hasData, data |-> data]
JsonList == [type |-> "list", hasData |-> FALSE, data |-> <<>>]
NotJson == [type |-> "invalid", hasData |-> FALSE, data |-> <<>>]

JsonValues ==
    {JsonDict(TRUE, d) : d \in RowSeqs} \cup {JsonDict(FALSE, <<>>), JsonList}

\* A body is what the two parsers see in it: the JSON value (or none) and the
\* <div> blocks of the HTML tree.
JsonBodies == {[json |-> j, divs |-> <<>>] : j \in JsonValues}
HtmlBodies == {[json |-> NotJson, divs |-> d] : d \in SeqsUpTo(Divs, MaxDivs)}
Bodies == JsonBodies \cup HtmlBodies

Responses == [status : Statuses, body : Bodies]

(* -------------------------- Ecocito (client) -------------------------- *)

NoValue == [type |-> "none", hasData |-> FALSE, data |-> <<>>]

Return(v) == [ok |-> TRUE, cls |-> "", msg |-> "", value |-> v]
Raise(c, m) == [ok |-> FALSE, cls |-> c, msg |-> m, value |-> NoValue]

\* html.find_all('div', {'class': c})
find_all(body, c) == SelectSeq(body.divs, LAMBDA d : d.class = c)

\* tag.text: the texts below the tag, concatenated.
RECURSIVE Concat(_)
Concat(items) ==
    IF items = <<>> THEN "" ELSE Head(items) \o Concat(Tail(items))

text(div) == Concat(div.items)

InvalidHttp(status) == "Invalid HTTP response: " \o ToString(status)

login_noitem(r) ==
    IF r.status # 200
    THEN Raise("EcocitoException", InvalidHttp(r.status))
    ELSE LET error == find_all(r.body, "validation-summary-errors")
         IN  IF error # <<>>
             THEN IF error[1].items = <<>>
                  THEN Return(NoValue)
                  ELSE Raise("EcocitoException", error[1].items[1])
             ELSE Return(NoValue)

\* Ecocito.login on the response r of the POST.
login(r) ==
    IF r.status # 200
    THEN Raise("EcocitoException", InvalidHttp(r.status))
    ELSE LET error == find_all(r.body, "validation-summary-errors")
         IN  IF error # <<>>
             THEN \* error[0].find('li').text: find gives None without an <li>
                  IF error[1].items = <<>>
                  THEN Raise("AttributeError",
                             "'NoneType' object has no attribute 'text'")
                  ELSE Raise("EcocitoException", error[1].items[1])
             ELSE Return(NoValue)

get_levees_wrap(r) ==
    IF r.status # 200
    THEN Raise("EcocitoException", InvalidHttp(r.status))
    ELSE IF r.body.json.type # "invalid"
         THEN Return(r.body.json)
         ELSE LET error == find_all(r.body, "error")
              IN  IF error # <<>>
                  THEN Raise("EcocitoException", text(error[1]))
                  ELSE Raise("EcocitoException", "Expecting value")

\* Ecocito.get_levees on the response r of the GET.
get_levees(r) ==
    IF r.status # 200
    THEN Raise("EcocitoException", InvalidHttp(r.status))
    ELSE IF r.body.json.type # "invalid"
         THEN Return(r.body.json)
         ELSE LET error == find_all(r.body, "error")
              IN  IF error # <<>>
                  THEN Raise("EcocitoException", text(error[1]))
                  ELSE \* bare raise: the JSONDecodeError goes on as it is
                       Raise("JSONDecodeError", "Expecting value")

\* Ecocito.logout on the response r of the GET.
logout(r) ==
    IF r.status # 200
    THEN Raise("EcocitoException", InvalidHttp(r.status))
    ELSE Return(NoValue)

(* ------------------------- State (dedup store) ------------------------ *)

\* datetime.fromisoformat on the strings the portal sends: a naive datetime.
IsoDates == {"2024-03-01T08:00:00", "2024-03-02T09:30:00"}

fromisoformat(s) ==
    CASE s = "2024-03-01T08:00:00" ->
             [date |-> "2024-03-01", clock |-> "08:00:00", offset |-> ""]
      [] s = "2024-03-02T09:30:00" ->
             [date |-> "2024-03-02", clock |-> "09:30:00", offset |-> ""]

\* tz.localize with TZ unset: the UTC offset is attached.
localize(dt) == [dt EXCEPT !.offset = "+00:00"]

\* datetime.isoformat
isoformat(dt) == dt.date \o "T" \o dt.clock \o dt.offset

\* '{}'.format(weight): a float shows its fraction, an int does not.
format(w) ==
    IF w.float
    THEN ToString(w.tenths \div 10) \o "." \o ToString(w.tenths % 10)
    ELSE ToString(w.tenths \div 10)

\* State.compute_hash
compute_hash(time, cuve, puce, weight) ==
    isoformat(time) \o "_" \o cuve \o "_" \o puce \o "_" \o format(weight)

\* The class of the exception the extraction of a row raises ("" for none):
\* fromisoformat(None) is a TypeError, an unparseable string a ValueError.
extract_error(row) ==
    IF row.DATE_DONNEE = None THEN "TypeError"
    ELSE IF row.DATE_DONNEE \notin IsoDates THEN "ValueError"
    ELSE ""

\* The fingerprint is_new computes for a row whose extraction succeeded.
Fingerprint(row) ==
    compute_hash(localize(fromisoformat(row.DATE_DONNEE)),
                 row.NumeroCuve, row.NumeroPuce, row.QUANTITE_NETTE)

Hashes == {Fingerprint(r) : r \in {x \in Rows : extract_error(x) = ""}}

\* The state file: absent, a complete JSON document holding the list, or the
\* beginning of one (open('w') truncated it and the dump did not finish).
Absent == [kind |-> "absent", hashes |-> <<>>]

is_known_last(h, k) == k # <<>> /\ h = k[Len(k)]

\* hash in self._state.get(KNOWN_HASHES, [])
is_known(h, k) == h \in Range(k)

load_fails_missing(f) == f.kind # "json"

\* State.load_state raises: the file exists (line 101) and json.load cannot
\* parse it (line 103).
load_fails(f) == f.kind = "partial"

load_state_fresh(f) == <<>>

\* State.load_state on a file that is absent or parses: the list it holds.
load_state(f) == IF f.kind = "json" THEN f.hashes ELSE <<>>

\* open('w'): the file exists and is empty.
open_w == [kind |-> "partial", hashes |-> <<>>]

dump_new_only(k) == [kind |-> "json", hashes |-> <<k[Len(k)]>>]

\* json.dump(self._state, f) and the close that flushes it.
dump(k) == [kind |-> "json", hashes |-> k]

\* A dump cut after n fingerprints: the text up to there. Cut after the last
\* one with the buffer flushed, the document is complete.
dump_cut(k, n) ==
    IF n = Len(k) THEN dump(k)
    ELSE [kind |-> "partial", hashes |-> SubSeq(k, 1, n)]

(* ------------------------------- state -------------------------------- *)

VARIABLES
    made,      \* history: save_state made the parent directory
    reqs,      \* history: requests made through the current Ecocito instance
    sessions,  \* history: sessions opened at the portal by login and not closed by logout (capped at MaxSessions)
    pair,      \* the two value tuples compute_hash is applied to, and its results
    pc,        \* where the process is: "start", a step of the loop, "down"
    known,     \* state._state.get('known_hashes', [])
    file,      \* the state file
    dir,       \* whether the state file's parent directory exists
    rows,      \* the rows of the response the for loop has not finished
    client,    \* the session of the cycle's Ecocito instance
    exc,       \* the exception on its way to the except clause
    pause,     \* history: "slept" once the loop slept after the last login
    pubCount,  \* history: messages published, by fingerprint
    asked,     \* history: fingerprints some is_new call returned an answer for
    returned,  \* history: fingerprints some is_new call returned True for
    ans,       \* history: the is_new call that just ended
    down,      \* history: the step a kill met, while the process is down;
               \* "restarted" in a process that was started again
    call,      \* one client call: operation, response, outcome
    data,      \* history: the "data" array of the cycle's response
    sent,      \* history: the rows published in the cycle, in order
    known0     \* history: the list of fingerprints when the cycle fetched

vars ==
    <<pc, known, file, dir, rows, client, exc, pause, pubCount, asked,
      returned, ans, down, call, data, sent, known0, made, reqs, sessions,
      pair>>

NoExc == [op |-> "", cls |-> ""]
NoAns == [hash |-> "", first |-> FALSE, res |-> ""]
NoCall == [op |-> "", resp |-> [status |-> 0, body |-> [json |-> NotJson, divs |-> <<>>]],
           outcome |-> Raise("", "")]
Pending == Raise("pending", "")

Init ==
    /\ pc = "start"
    /\ known = <<>>
    /\ file = Absent
    /\ dir \in BOOLEAN
    /\ rows = <<>>
    /\ client = "none"
    /\ exc = NoExc
    /\ pause = "start"
    /\ pubCount = [h \in Hashes |-> 0]
    /\ asked = {}
    /\ returned = {}
    /\ ans = NoAns
    /\ down = ""
    /\ call = NoCall
    /\ data = <<>>
    /\ sent = <<>>
    /\ known0 = <<>>
    /\ made = FALSE
    /\ reqs = 0
    /\ sessions = 0
    /\ pair = <<>>

(* ------------------------- __main__: the loop ------------------------- *)

\* Responses the loop meets: one of each outcome of login and of logout, and
\* for get_levees every JSON body besides one of each failure.
PlainHtml == [json |-> NotJson, divs |-> <<>>]
ErrorHtml(c) ==
    [json |-> NotJson, divs |-> <<[class |-> c, items |-> <<"Invalid credentials">>]>>]

LoginResponses ==
    { [status |-> 200, body |-> PlainHtml],
      [status |-> 200, body |-> ErrorHtml("validation-summary-errors")],
      [status |-> 500, body |-> PlainHtml] }

LeveesResponses ==
    {[status |-> 200, body |-> b] : b \in JsonBodies}
        \cup { [status |-> 200, body |-> ErrorHtml("error")],
               [status |-> 200, body |-> PlainHtml],
               [status |-> 500, body |-> PlainHtml] }

LogoutResponses ==
    { [status |-> 200, body |-> PlainHtml],
      [status |-> 500, body |-> PlainHtml] }

\* An exception leaves the try block for the except clause.
Throw(op, cls) ==
    /\ pc' = "except"
    /\ exc' = [op |-> op, cls |-> cls]

Hist == <<pubCount, asked, returned>>

\* state.load_state(), then the connection to the broker (lines 139-145).
\* json.load raises on a file that does not parse; nothing catches it there.
Start ==
    /\ pc = "start"
    /\ IF load_fails(file)
       THEN /\ pc' = "down"
            /\ down' = "load_state"
            /\ known' = <<>>
       ELSE /\ pc' = "construct"
            /\ UNCHANGED down
            /\ known' = load_state(file)
    /\ ans' = NoAns
    /\ UNCHANGED <<file, dir, rows, client, exc, pause, Hist, call,
                   data, sent, known0,
                   made,
                   reqs,
                   sessions,
                   pair>>

Construct_reuse ==
    /\ pc = "construct"
    /\ \/ /\ IF client = "none"
             THEN client' = "unauthenticated" /\ reqs' = 0
             ELSE UNCHANGED <<client, reqs>>
          /\ pc' = "login"
          /\ exc' = NoExc
       \/ /\ Throw("construct", "Exception")
          /\ UNCHANGED <<client, reqs>>
    /\ ans' = NoAns
    /\ UNCHANGED <<known, file, dir, rows, pause, Hist, down, call,
                   data, sent, known0,
                   made,
                   sessions,
                   pair>>

\* client = Ecocito(...) (lines 149-153), inside the try block.
Construct ==
    /\ pc = "construct"
    /\ \/ /\ client' = "unauthenticated"
          /\ reqs' = 0
          /\ pc' = "login"
          /\ exc' = NoExc
       \/ /\ Throw("construct", "Exception")
          /\ UNCHANGED <<client, reqs>>
    /\ ans' = NoAns
    /\ UNCHANGED <<known, file, dir, rows, pause, Hist, down, call,
                   data, sent, known0,
                   made,
                   sessions,
                   pair>>

\* client.login() (line 154).
Login ==
    /\ pc = "login"
    /\ pause' = "none"
    /\ \/ \E r \in LoginResponses :
            LET o == login(r)
            IN  IF o.ok
                THEN /\ client' = "authenticated"
                     /\ pc' = "fetch"
                     /\ exc' = NoExc
                ELSE /\ Throw("login", o.cls)
                     /\ UNCHANGED client
       \/ /\ Throw("login", "ConnectionError")
          /\ UNCHANGED client
    /\ ans' = NoAns
    /\ reqs' = reqs + 1
    /\ sessions' = IF client' = "authenticated" /\ sessions < MaxSessions
                   THEN sessions + 1
                   ELSE sessions
    /\ UNCHANGED <<known, file, dir, rows, Hist, down, call,
                   data, sent, known0,
                   made,
                   pair>>

Reversed(q) == [i \in 1..Len(q) |-> q[Len(q) + 1 - i]]

Fetch_reversed ==
    /\ pc = "fetch"
    /\ \/ \E r \in LeveesResponses :
            LET o == get_levees(r)
            IN  IF ~o.ok
                THEN /\ Throw("get_levees", o.cls)
                     /\ UNCHANGED rows
                ELSE IF o.value.type # "dict"
                THEN /\ Throw("extract", "AttributeError")
                     /\ UNCHANGED rows
                ELSE /\ rows' = Reversed(IF o.value.hasData THEN o.value.data ELSE <<>>)
                     /\ pc' = "rows"
                     /\ exc' = NoExc
       \/ /\ Throw("get_levees", "ConnectionError")
          /\ UNCHANGED rows
    /\ IF pc' = "rows"
       THEN data' = Reversed(rows') /\ sent' = <<>> /\ known0' = known
       ELSE UNCHANGED <<data, sent, known0>>
    /\ ans' = NoAns
    /\ reqs' = reqs + 1
    /\ UNCHANGED <<known, file, dir, client, pause, Hist, down, call,
                   made,
                   sessions,
                   pair>>

\* data = client.get_levees(...) and data.get('data', []) (lines 156-161).
Fetch ==
    /\ pc = "fetch"
    /\ \/ \E r \in LeveesResponses :
            LET o == get_levees(r)
            IN  IF ~o.ok
                THEN /\ Throw("get_levees", o.cls)
                     /\ UNCHANGED rows
                ELSE IF o.value.type # "dict"
                THEN /\ Throw("extract", "AttributeError")
                     /\ UNCHANGED rows
                ELSE /\ rows' = IF o.value.hasData THEN o.value.data ELSE <<>>
                     /\ pc' = "rows"
                     /\ exc' = NoExc
       \/ /\ Throw("get_levees", "ConnectionError")
          /\ UNCHANGED rows
    /\ IF pc' = "rows"
       THEN data' = rows' /\ sent' = <<>> /\ known0' = known
       ELSE UNCHANGED <<data, sent, known0>>
    /\ ans' = NoAns
    /\ reqs' = reqs + 1
    /\ UNCHANGED <<known, file, dir, client, pause, Hist, down, call,
                   made,
                   sessions,
                   pair>>

\* The for loop has no row left (line 161).
RowsDone ==
    /\ pc = "rows"
    /\ rows = <<>>
    /\ pc' = "logout"
    /\ ans' = NoAns
    /\ UNCHANGED <<known, file, dir, rows, client, exc, pause, Hist, down, call,
                   data, sent, known0,
                   made,
                   reqs,
                   sessions,
                   pair>>

\* Lines 162-165 raise on the next row.
ExtractFail ==
    /\ pc = "rows"
    /\ rows # <<>>
    /\ extract_error(Head(rows)) # ""
    /\ Throw("extract", extract_error(Head(rows)))
    /\ ans' = NoAns
    /\ UNCHANGED <<known, file, dir, rows, client, pause, Hist, down, call,
                   data, sent, known0,
                   made,
                   reqs,
                   sessions,
                   pair>>

\* The row the for loop is at, once lines 162-165 went through.
AtRow == pc = "rows" /\ rows # <<>> /\ extract_error(Head(rows)) = ""

\* is_new finds the fingerprint in the list and returns False (lines 124, 131).
IsNewKnown ==
    /\ AtRow
    /\ LET h == Fingerprint(Head(rows))
       IN  /\ is_known(h, known)
           /\ ans' = [hash |-> h, first |-> h \notin asked, res |-> "False"]
           /\ asked' = asked \cup {h}
    /\ rows' = Tail(rows)
    /\ UNCHANGED <<pc, known, file, dir, client, exc, pause, pubCount,
                   returned, down, call,
                   data, sent, known0,
                   made,
                   reqs,
                   sessions,
                   pair>>

\* is_new appends the fingerprint (lines 125-127) and save_state makes the
\* parent directory and opens the file for writing (lines 106-109).
IsNewOpen ==
    /\ AtRow
    /\ LET h == Fingerprint(Head(rows))
       IN  /\ ~is_known(h, known)
           /\ known' = Append(known, h)
    /\ dir' = TRUE
    /\ file' = open_w
    /\ pc' = "writing"
    /\ made' = (made \/ ~dir)
    /\ ans' = NoAns
    /\ UNCHANGED <<rows, client, exc, pause, Hist, down, call,
                   data, sent, known0,
                   reqs,
                   sessions,
                   pair>>

\* As IsNewOpen, but mkdir or open raises OSError: is_new raises with the
\* fingerprint appended and the file as it was.
IsNewOpenFail ==
    /\ AtRow
    /\ LET h == Fingerprint(Head(rows))
       IN  /\ ~is_known(h, known)
           /\ known' = Append(known, h)
           /\ ans' = [hash |-> h, first |-> h \notin asked, res |-> "raise"]
    /\ dir' \in {dir, TRUE}
    /\ made' = (made \/ (dir' /\ ~dir))
    /\ Throw("is_new", "OSError")
    /\ UNCHANGED <<file, rows, client, pause, Hist, down, call,
                   data, sent, known0,
                   reqs,
                   sessions,
                   pair>>

\* json.dump and the close end (lines 109-111): save_state returns and is_new
\* returns True (line 129).
SaveWrite ==
    /\ pc = "writing"
    /\ file' = dump(known)
    /\ pc' = "publish"
    /\ LET h == Fingerprint(Head(rows))
       IN  /\ ans' = [hash |-> h, first |-> h \notin asked, res |-> "True"]
           /\ asked' = asked \cup {h}
           /\ returned' = returned \cup {h}
    /\ UNCHANGED <<known, dir, rows, client, exc, pause, pubCount, down, call,
                   data, sent, known0,
                   made,
                   reqs,
                   sessions,
                   pair>>

\* The write or the close raises OSError after n fingerprints reached the file.
SaveWriteFail ==
    /\ pc = "writing"
    /\ \E n \in 0..Len(known) : file' = dump_cut(known, n)
    /\ LET h == Fingerprint(Head(rows))
       IN  ans' = [hash |-> h, first |-> h \notin asked, res |-> "raise"]
    /\ Throw("is_new", "OSError")
    /\ UNCHANGED <<known, dir, rows, client, pause, Hist, down, call,
                   data, sent, known0,
                   made,
                   reqs,
                   sessions,
                   pair>>

\* mqtt_client.publish(...) of the row is_new returned True for (lines 170-180).
Publish ==
    /\ pc = "publish"
    /\ LET h == Fingerprint(Head(rows))
       IN  /\ pubCount[h] < MaxPub
           /\ pubCount' = [pubCount EXCEPT ![h] = @ + 1]
    /\ rows' = Tail(rows)
    /\ pc' = "rows"
    /\ ans' = NoAns
    /\ sent' = Append(sent, Head(rows))
    /\ UNCHANGED <<known, file, dir, client, exc, pause, asked, returned,
                   down, call, data, known0,
                   made,
                   reqs,
                   sessions,
                   pair>>

\* publish (or the json.dumps of its payload) raises.
PublishFail ==
    /\ pc = "publish"
    /\ Throw("publish", "Exception")
    /\ ans' = NoAns
    /\ UNCHANGED <<known, file, dir, rows, client, pause, Hist, down, call,
                   data, sent, known0,
                   made,
                   reqs,
                   sessions,
                   pair>>

\* client.logout() (line 182).
Logout ==
    /\ pc = "logout"
    /\ \/ \E r \in LogoutResponses :
            LET o == logout(r)
            IN  IF o.ok
                THEN /\ client' = "closed"
                     /\ pc' = "sleep"
                     /\ exc' = NoExc
                ELSE /\ Throw("logout", o.cls)
                     /\ UNCHANGED client
       \/ /\ Throw("logout", "ConnectionError")
          /\ UNCHANGED client
    /\ ans' = NoAns
    /\ IF pc' = "sleep"
       THEN data' = <<>> /\ sent' = <<>> /\ known0' = <<>>
       ELSE UNCHANGED <<data, sent, known0>>
    /\ reqs' = reqs + 1
    /\ sessions' = IF client' = "closed" /\ sessions > 0
                   THEN sessions - 1
                   ELSE sessions
    /\ UNCHANGED <<known, file, dir, rows, pause, Hist, down, call,
                   made,
                   pair>>

\* t.sleep(3600) (lines 184-185), then the next iteration.
Sleep ==
    /\ pc = "sleep"
    /\ pause' = "slept"
    /\ pc' = "construct"
    /\ ans' = NoAns
    /\ UNCHANGED <<known, file, dir, rows, client, exc, Hist, down, call,
                   data, sent, known0,
                   made,
                   reqs,
                   sessions,
                   pair>>

Except_cleanup ==
    /\ pc = "except"
    /\ exc' = NoExc
    /\ pc' = "construct"
    /\ ans' = NoAns
    /\ data' = <<>>
    /\ sent' = <<>>
    /\ known0' = <<>>
    /\ IF client = "authenticated"
       THEN /\ client' = "closed"
            /\ sessions' = IF sessions > 0 THEN sessions - 1 ELSE 0
       ELSE UNCHANGED <<client, sessions>>
    /\ UNCHANGED <<known, file, dir, rows, pause, Hist, down, call,
                   made,
                   reqs,
                   pair>>

Except_reraise ==
    /\ pc = "except"
    /\ pc' = "down"
    /\ down' = "exception"
    /\ exc' = NoExc
    /\ ans' = NoAns
    /\ known' = <<>>
    /\ rows' = <<>>
    /\ client' = "none"
    /\ data' = <<>>
    /\ sent' = <<>>
    /\ known0' = <<>>
    /\ reqs' = 0
    /\ UNCHANGED <<file, dir, pause, Hist, call,
                   made,
                   sessions,
                   pair>>

\* except Exception: logging.exception(...) (lines 186-187), then the next
\* iteration of while True.
Except ==
    /\ pc = "except"
    /\ exc' = NoExc
    /\ pc' = "construct"
    /\ ans' = NoAns
    /\ data' = <<>>
    /\ sent' = <<>>
    /\ known0' = <<>>
    /\ UNCHANGED <<known, file, dir, rows, client, pause, Hist, down, call,
                   made,
                   reqs,
                   sessions,
                   pair>>

\* The process is killed: its memory is gone, the file stays as it is.
Kill ==
    /\ pc # "down"
    /\ down' = pc
    /\ pc' = "down"
    /\ known' = <<>>
    /\ rows' = <<>>
    /\ client' = "none"
    /\ exc' = NoExc
    /\ ans' = NoAns
    /\ data' = <<>>
    /\ sent' = <<>>
    /\ known0' = <<>>
    /\ reqs' = 0
    /\ UNCHANGED <<file, dir, pause, Hist, call,
                   made,
                   sessions,
                   pair>>

\* The process is started again (line 134 on).
Restart ==
    /\ pc = "down"
    /\ pc' = "start"
    /\ down' = "restarted"
    /\ pause' = "start"
    /\ UNCHANGED <<known, file, dir, rows, client, exc, Hist, ans, call,
                   data, sent, known0,
                   made,
                   reqs,
                   sessions,
                   pair>>

\* One step of the running process.
Step ==
    \/ Start
    \/ Construct
    \/ Login
    \/ Fetch
    \/ RowsDone
    \/ ExtractFail
    \/ IsNewKnown
    \/ IsNewOpen
    \/ IsNewOpenFail
    \/ SaveWrite
    \/ SaveWriteFail
    \/ Publish
    \/ PublishFail
    \/ Logout
    \/ Sleep
    \/ Except

Next == Step \/ Kill \/ Restart

Spec == Init /\ [][Next]_vars

\* The process alone, never killed: it takes its steps as long as it can.
LiveSpec == Init /\ [][Step]_vars /\ WF_vars(Step)

(* --------------------- the client calls on their own ------------------ *)

\* One call of login or get_levees on any response of the bounded set.
InitClient ==
    /\ pc = "start"
    /\ known = <<>>
    /\ file = Absent
    /\ dir = TRUE
    /\ rows = <<>>
    /\ client = "none"
    /\ exc = NoExc
    /\ pause = "start"
    /\ pubCount = [h \in Hashes |-> 0]
    /\ asked = {}
    /\ returned = {}
    /\ ans = NoAns
    /\ down = ""
    /\ call \in [op : {"login", "get_levees"}, resp : Responses, outcome : {Pending}]
    /\ data = <<>>
    /\ sent = <<>>
    /\ known0 = <<>>
    /\ made = FALSE
    /\ reqs = 0
    /\ sessions = 0
    /\ pair = <<>>

Main ==
    <<pc, known, file, dir, rows, client, exc, pause, Hist, ans, down,
      data, sent, known0, made, reqs, sessions>>

DoLogin ==
    /\ call.op = "login"
    /\ call.outcome = Pending
    /\ call' = [call EXCEPT !.outcome = login(call.resp)]
    /\ UNCHANGED <<Main, pair>>

DoGetLevees ==
    /\ call.op = "get_levees"
    /\ call.outcome = Pending
    /\ call' = [call EXCEPT !.outcome = get_levees(call.resp)]
    /\ UNCHANGED <<Main, pair>>

NextClient == DoLogin \/ DoGetLevees

SpecClient == InitClient /\ [][NextClient]_vars

\* ---- compute_hash as a function of its four arguments ----
\* Identifiers are the strings of the "NumeroCuve" and "NumeroPuce" keys; the
\* portal's JSON may hold any string there, "_" included.
HashTimes == {localize(fromisoformat(d)) : d \in IsoDates}
HashCuves == {"A", "A_1"}
HashPuces == {"P", "1_P"}
HashWeights == {[float |-> TRUE, tenths |-> 125], [float |-> FALSE, tenths |-> 70]}

HashArgs ==
    [time : HashTimes, cuve : HashCuves, puce : HashPuces, weight : HashWeights]

NotHashed == "?"

InitHash ==
    /\ pc = "start"
    /\ known = <<>>
    /\ file = Absent
    /\ dir = TRUE
    /\ rows = <<>>
    /\ client = "none"
    /\ exc = NoExc
    /\ pause = "start"
    /\ pubCount = [h \in Hashes |-> 0]
    /\ asked = {}
    /\ returned = {}
    /\ ans = NoAns
    /\ down = ""
    /\ call = NoCall
    /\ data = <<>>
    /\ sent = <<>>
    /\ known0 = <<>>
    /\ made = FALSE
    /\ reqs = 0
    /\ sessions = 0
    /\ pair \in [a : HashArgs, b : HashArgs, ha : {NotHashed}, hb : {NotHashed}]

\* compute_hash is applied to both tuples (lines 113-119).
DoHash ==
    /\ pair.ha = NotHashed
    /\ pair' = [pair EXCEPT
                   !.ha = compute_hash(pair.a.time, pair.a.cuve,
                                       pair.a.puce, pair.a.weight),
                   !.hb = compute_hash(pair.b.time, pair.b.cuve,
                                       pair.b.puce, pair.b.weight)]
    /\ UNCHANGED <<Main, call>>

NextHash == DoHash

SpecHash == InitHash /\ [][NextHash]_vars

(* ------------------------------- claims ------------------------------- *)

\* The fingerprints written in the file, whatever its condition.
InFile == Range(file.hashes)

\* C1 (Dedup idempotence), as claimed: of the answers is_new returns for one
\* record, over all processes, the first is True, with the fingerprint then in
\* the persisted file, and every later one is False. Calls that raise are not
\* counted as answers.
C1_DedupIdempotence ==
    ans.res \in {"True", "False"} =>
        /\ (ans.res = "True") <=> ans.first
        /\ ans.res = "True" => file.kind = "json" /\ ans.hash \in InFile

\* C2 (At-least-once delivery), as claimed: a record whose fingerprint is_new
\* recorded, returning True, is eventually published.
C2_AtLeastOnce ==
    \A h \in Hashes : (h \in returned) ~> (pubCount[h] > 0)

\* C3 (No duplicate publication): over all cycles and restarts, no fingerprint
\* is published more than once.
C3_NoDuplicate == \A h \in Hashes : pubCount[h] <= 1

\* A restarted process was asked about a record that is published already,
\* and is_new answered False.
C3_Witness ==
    /\ down = "restarted"
    /\ ans.res = "False"
    /\ pubCount[ans.hash] = 1

\* C4 (Atomic persistence), as claimed: at every instant the state file is a
\* complete snapshot (or not there yet), never an empty or cut document.
C4_AtomicPersistence == file.kind \in {"absent", "json"}

\* C5 (Crash-safety after a write): killed right after save_state returned, the
\* process leaves a file that parses and holds every fingerprint is_new
\* returned True for, in this process or an earlier one.
C5_CrashSafety ==
    (pc = "down" /\ down = "publish") =>
        /\ file.kind = "json"
        /\ returned \subseteq InFile

\* The kill came after the save of a second fingerprint.
C5_Witness ==
    /\ pc = "down"
    /\ down = "publish"
    /\ Cardinality(returned) = 2

\* C6 (Monotonic growth), as claimed: no step takes a fingerprint out of the
\* persisted file.
C6_MonotonicGrowth == [][InFile \subseteq Range(file'.hashes)]_vars

\* C7 (Sleep on every cycle), as claimed: when a login attempt is about to be
\* made and the process made one before, the loop slept since that one.
C7_SleepBetweenLogins == pc = "login" => pause # "none"

\* C8 (The loop survives every failure): an exception caught by the loop is
\* followed by the next iteration of while True, and an iteration goes on to
\* its login attempt unless the construction of its client raises.
C8_LoopGoesOn ==
    /\ (pc = "except") ~> (pc = "construct")
    /\ (pc = "construct") ~> (pc = "login" \/ (pc = "except" /\ exc.op = "construct"))

\* An exception of is_new has reached the except clause.
C8_Witness == pc = "except" /\ exc.op = "is_new"

\* The call of the client specification has ended.
Done(op) == call.op = op /\ call.outcome # Pending

\* The first block of class c in the body, by position.
HasBlock(r, c) == \E i \in 1..Len(r.body.divs) : r.body.divs[i].class = c
FirstBlock(r, c) ==
    LET i == CHOOSE j \in 1..Len(r.body.divs) :
                 /\ r.body.divs[j].class = c
                 /\ \A k \in 1..(j - 1) : r.body.divs[k].class # c
    IN  r.body.divs[i]

VSE == "validation-summary-errors"

\* The kind of failure the specification names for a login response.
LoginKind(r) == IF r.status # 200 THEN "ProtocolError" ELSE "AuthenticationError"

ProtocolErrorClass == "EcocitoException"

\* C10 (get_levees outcome), as claimed: non-200 fails with ProtocolError; 200
\* with JSON returns the parsed body; 200 without JSON fails with the message
\* of the error block if there is one, and with ProtocolError if there is none.
C10_LeveesOutcome ==
    Done("get_levees") =>
        LET r == call.resp
            o == call.outcome
            isJson == r.body.json.type # "invalid"
        IN  /\ r.status # 200 => ~o.ok /\ o.cls = ProtocolErrorClass
            /\ (r.status = 200 /\ isJson) => o.ok /\ o.value = r.body.json
            /\ (r.status = 200 /\ ~isJson /\ HasBlock(r, "error")) =>
                   ~o.ok /\ o.msg = text(FirstBlock(r, "error"))
            /\ (r.status = 200 /\ ~isJson /\ ~HasBlock(r, "error")) =>
                   ~o.ok /\ o.cls = ProtocolErrorClass

\* C10 amended: without JSON and without error block, the JSONDecodeError of
\* the parse goes on to the caller as it is.
C10_LeveesOutcomeAmended ==
    Done("get_levees") =>
        LET r == call.resp
            o == call.outcome
            isJson == r.body.json.type # "invalid"
        IN  /\ r.status # 200 =>
                   /\ ~o.ok
                   /\ o.cls = "EcocitoException"
                   /\ o.msg = InvalidHttp(r.status)
            /\ (r.status = 200 /\ isJson) => o.ok /\ o.value = r.body.json
            /\ (r.status = 200 /\ ~isJson /\ HasBlock(r, "error")) =>
                   /\ ~o.ok
                   /\ o.cls = "EcocitoException"
                   /\ o.msg = text(FirstBlock(r, "error"))
            /\ (r.status = 200 /\ ~isJson /\ ~HasBlock(r, "error")) =>
                   ~o.ok /\ o.cls = "JSONDecodeError"

\* get_levees met status 200 and a body that is no JSON and whose only block
\* is not an error block.
C10_Witness ==
    /\ Done("get_levees")
    /\ call.resp.status = 200
    /\ call.resp.body.json = NotJson
    /\ Len(call.resp.body.divs) = 1
    /\ ~HasBlock(call.resp, "error")
    /\ call.outcome.cls = "JSONDecodeError"

\* The rows of the cycle's response the for loop is done with.
Processed == Len(data) - Len(rows)

\* Row j of the response is new: no fingerprint of the list at the fetch, and
\* no row before it in the response, has its fingerprint.
IsNewRow(j) ==
    /\ extract_error(data[j]) = ""
    /\ Fingerprint(data[j]) \notin Range(known0)
    /\ \A k \in 1..(j - 1) :
           extract_error(data[k]) = "" =>
               Fingerprint(data[k]) # Fingerprint(data[j])

\* The new rows among the first n of the response, in the response's order.
RECURSIVE NewRows(_)
NewRows(n) ==
    IF n = 0 THEN <<>>
    ELSE IF IsNewRow(n) THEN Append(NewRows(n - 1), data[n]) ELSE NewRows(n - 1)

\* C11 (Order of processing): the rows the loop works on are the rest of the
\* current cycle's response, and the messages published in the cycle are the
\* new rows among those the loop is done with, in the order of the response.
C11_OrderedPublication ==
    pc \in {"rows", "writing", "publish", "logout"} =>
        /\ Processed >= 0
        /\ rows = SubSeq(data, Processed + 1, Len(data))
        /\ sent = NewRows(Processed)
        /\ pc \in {"writing", "publish"} => IsNewRow(Processed + 1)

\* A cycle published two new rows, B before A as the response had them.
C11_Witness ==
    /\ pc = "logout"
    /\ data = <<RowB, RowA>>
    /\ sent = <<RowB, RowA>>

\* C12 (Missing state file): load_state on a missing file raises nothing and
\* leaves the list empty; on the empty list is_new never answers False; and
\* when is_new returns True the file is there, complete, in its directory.
C12_MissingFile ==
    /\ [][(pc = "start" /\ file.kind = "absent") =>
              \/ pc' = "construct" /\ known' = <<>>
              \/ pc' = "down" /\ down' = "start"]_vars
    /\ [][(pc = "rows" /\ known = <<>>) => ans'.res # "False"]_vars
    /\ [][(pc = "writing" /\ pc' = "publish") =>
              /\ ans'.res = "True"
              /\ dir'
              /\ file' = [kind |-> "json", hashes |-> known]]_vars

\* First run: no file and no directory; is_new returned True for the first
\* record and save_state made both.
C12_Witness ==
    /\ pc = "publish"
    /\ down = ""
    /\ made
    /\ Len(known) = 1
    /\ file.kind = "json"

\* C13 (Session protocol): login is the first request of a client made in the
\* same iteration; get_levees follows a login that succeeded on that client;
\* logout follows once no row of the response is left; and a client that was
\* logged out gets no further request before the next iteration replaces it.
C13_SessionProtocol ==
    /\ pc = "login" => client = "unauthenticated" /\ reqs = 0
    /\ pc = "fetch" => client = "authenticated" /\ reqs = 1
    /\ pc \in {"rows", "writing", "publish"} =>
           client = "authenticated" /\ reqs = 2
    /\ pc = "logout" =>
           /\ client = "authenticated" /\ reqs = 2
           /\ rows = <<>> /\ Processed = Len(data)
    /\ client = "closed" =>
           /\ reqs = 3
           /\ \/ pc \in {"sleep", "construct"}
              \/ pc = "except" /\ exc.op = "construct"

\* A later cycle of the same process is about to log out.
C13_Witness ==
    /\ pc = "logout"
    /\ client = "authenticated"
    /\ known0 # <<>>
    /\ down = ""

\* C14 (is_new on a known fingerprint): whenever the loop is about to call
\* is_new with a row whose fingerprint is in the in-memory list, the call
\* returns False, the list, the file and its directory are unchanged, and
\* save_state is not entered (the loop goes on with the next row).
C14_KnownNoSideEffect ==
    [][(AtRow /\ Fingerprint(Head(rows)) \in Range(known) /\ pc' # "down") =>
           /\ ans'.res = "False"
           /\ ans'.hash = Fingerprint(Head(rows))
           /\ known' = known
           /\ file' = file
           /\ dir' = dir
           /\ pc' = "rows"
           /\ rows' = Tail(rows)]_vars

\* is_new has just answered False for a fingerprint that is first of two in
\* the list and in the file.
C14_Witness ==
    /\ ans.res = "False"
    /\ Len(known) = 2
    /\ ans.hash = known[1]
    /\ ans.hash \in InFile

\* C15 (Persistence once per new record): whenever the process is running and
\* is not inside save_state, the state file is a complete document (or absent)
\* and the set of fingerprints it holds equals the set held in memory.
C15_FileEqualsMemory ==
    pc \notin {"start", "writing", "down"} =>
        /\ file.kind # "partial"
        /\ InFile = Range(known)

\* C16 (Session abandonment on failure): the loop reaches client.logout()
\* exactly from the end of a for loop that processed every row, so with no
\* pending exception and an authenticated client; the except clause closes no
\* session and leaves the client as it is; the count of open sessions goes
\* down only by one and only in a logout that succeeds, and goes up by one
\* (up to the cap) with every login that succeeds, so a cycle that fails
\* after its login leaves one more session open for good.
C16_SessionAbandonment ==
    /\ [](pc = "logout" =>
              /\ exc = NoExc
              /\ client = "authenticated"
              /\ rows = <<>> /\ Processed = Len(data))
    /\ [][(pc = "rows" /\ rows = <<>> /\ pc' # "down") => pc' = "logout"]_vars
    /\ [][(pc # "logout" /\ pc' = "logout") => (pc = "rows" /\ rows = <<>>)]_vars
    /\ [][(pc = "except" /\ pc' # "down") =>
              /\ pc' = "construct"
              /\ sessions' = sessions
              /\ client' = client]_vars
    /\ [][sessions' < sessions =>
              /\ pc = "logout" /\ client' = "closed"
              /\ sessions' = sessions - 1]_vars
    /\ [][(pc = "login" /\ client' = "authenticated") =>
              sessions' = IF sessions < MaxSessions
                          THEN sessions + 1
                          ELSE sessions]_vars
    /\ [][sessions' > sessions =>
              pc = "login" /\ client' = "authenticated"]_vars

\* Two cycles of one process failed after their login: two sessions are left
\* open when the third cycle starts.
C16_Witness ==
    /\ pc = "construct"
    /\ down = ""
    /\ client = "authenticated"
    /\ sessions = 2

\* C17 (is_new on a persistence error), as claimed: when is_new has raised
\* because save_state raised, the fingerprint it was called with is not in the
\* in-memory list.
C17_NotRetainedOnError ==
    ans.res = "raise" => ans.hash \notin Range(known)

\* The response being processed holds a row, with all its fields, whose
\* fingerprint is h.
Fetched(h) ==
    /\ pc = "rows"
    /\ \E j \in 1..Len(data) :
           extract_error(data[j]) = "" /\ Fingerprint(data[j]) = h

\* C18 (Eventual publication of every returned record), as claimed: a record
\* that is in the response of infinitely many cycles is eventually published,
\* as long as neither is_new nor the publication raises, whatever the other
\* rows of the response are.
C18_EventualPublication ==
    \A h \in Hashes :
        ([]<>Fetched(h) /\ [](exc.op \notin {"is_new", "publish"}))
            => <>(pubCount[h] > 0)

\* C19 (Fingerprint injectivity), as claimed: two value tuples that
\* compute_hash maps to the same fingerprint are equal.
C19_Injective ==
    (pair.ha # NotHashed /\ pair.ha = pair.hb) => pair.a = pair.b

====
